---- MODULE Spec2Model ----
(***************************************************************************)
(* Model of python-gaze-service/gaze_service.py: the /ws/gaze session      *)
(* loop (websocket_endpoint), GazeProcessor.process_frame and              *)
(* GazeProcessor.calculate_attention_score.                                *)
(*                                                                         *)
(* Scheduling.  The service runs on one asyncio event loop.  A coroutine   *)
(* is only suspended at an await; websocket_endpoint awaits accept(),      *)
(* receive_text(), send_text() and close().  process_frame is an ordinary  *)
(* (non-async) method, so everything from the return of receive_text to    *)
(* the call of send_text is one step of the model.                         *)
(*                                                                         *)
(* Representation.                                                         *)
(*   - a Python str is a sequence of one-character strings;                *)
(*   - an optional value (None or x) is the sequence << >> or << x >>;     *)
(*   - a flag of the estimator is "True", "False" or "None";               *)
(*   - a ratio is counted in tenths (5 is 0.5), a score in hundredths      *)
(*     (30 is 0.3);                                                        *)
(*   - the external libraries (GazeTracking, base64, PIL, cv2) are not     *)
(*     part of the repository: the estimator's output for a frame and      *)
(*     whether it raises are chosen nondeterministically, and its values   *)
(*     are taken to be JSON-serialisable; base64/PIL decoding is modelled  *)
(*     on a three-letter alphabet (see b64decode, Image_open).             *)
(***************************************************************************)
EXTENDS Integers, Sequences, FiniteSets, TLC

VARIABLES
    pc,       \* pc[c]: where connection c's websocket_endpoint coroutine is
    inbox,    \* inbox[c]: events the transport holds for receive_text, FIFO
    nsent,    \* nsent[c]: number of events the client of c has sent
    gone,     \* gone[c]: the client of c has disconnected
    last,     \* last[c]: << >>, or the event receive_text returned last on c
              \* and what handling it did
    pending,  \* pending[c]: the response the coroutine is about to send_text
    outbox,   \* outbox[c]: the responses sent to the client of c, in order
    gaze,     \* gaze_processor.gaze: the one estimator of the process
    calls,    \* number of times gaze.refresh was called
    arg,      \* input of the function under test (SpecScore, SpecDecode)
    ret       \* its result, << >> until it was applied

vars == <<pc, inbox, nsent, gone, last, pending, outbox, gaze, calls, arg, ret>>

\* ------------------------------------------------------------- bounds
NumConns == 2
MaxMsgs == 2
MaxPayloadLen == 5

Conns == 1..NumConns

\* ------------------------------------------------------------- strings
Chars == {"A", "I", ","}

B64Alphabet == {"A", "I"}

Payloads == UNION {[1..n -> Chars] : n \in 0..MaxPayloadLen}

\* payloads the clients of the session specification send
EmptyPayload == << >>
BadPadding == <<"A", "A", "A">>
NotAnImage == <<"A", "A", "A", "A">>
ImageOne == <<"I", "A", "A", "A">>
ImageTwoUri == <<"A", ",", "I", "I", "A", "A">>

SessionPayloads == {EmptyPayload, BadPadding, NotAnImage, ImageOne, ImageTwoUri}

\* s.split(','): the segments of s between commas
RECURSIVE split(_)
split(s) ==
    IF \A i \in 1..Len(s) : s[i] # ","
    THEN <<s>>
    ELSE LET k == CHOOSE i \in 1..Len(s) :
                      s[i] = "," /\ \A j \in 1..(i - 1) : s[j] # ","
         IN <<SubSeq(s, 1, k - 1)>> \o split(SubSeq(s, k + 1, Len(s)))

HasComma(s) == \E i \in 1..Len(s) : s[i] = ","

\* the argument of base64.b64decode
B64Text(frame_data) ==
    IF HasComma(frame_data) THEN split(frame_data)[2] ELSE frame_data

IsB64Char(ch) == ch \in B64Alphabet

\* base64.b64decode(text) with validate=False: characters outside the
\* alphabet are discarded; what remains must come in groups of four.
\* ok = FALSE stands for binascii.Error.  The bytes are written as the
\* characters that encode them.
b64decode(text) ==
    LET kept == SelectSeq(text, IsB64Char)
    IN [ok |-> Len(kept) % 4 = 0, bytes |-> kept]

\* Image.open(BytesIO(bytes)): the bytes are an image when they start with
\* the format's magic, written "I".  FALSE stands for UnidentifiedImageError.
Image_open(bytes) == Len(bytes) > 0 /\ bytes[1] = "I"

\* ------------------------------------------------------------- estimator
Flags == {"True", "False", "None"}

RatioVals == 0..10

OptRatios == {<< >>} \cup {<<r>> : r \in RatioVals}

NotDetected ==
    [pupil_left |-> << >>, pupil_right |-> << >>,
     horizontal_ratio |-> << >>, vertical_ratio |-> << >>,
     is_left |-> "None", is_right |-> "None",
     is_center |-> "None", is_blinking |-> "None"]

LookingRight ==
    [pupil_left |-> <<2, 4>>, pupil_right |-> <<6, 4>>,
     horizontal_ratio |-> <<2>>, vertical_ratio |-> <<6>>,
     is_left |-> "False", is_right |-> "True",
     is_center |-> "False", is_blinking |-> "False"]

\* what the estimator may report for a frame in the session specification
EstimatorOutputs == {NotDetected, LookingRight}

\* every combination of the fields calculate_attention_score reads
ScoreInputs ==
    {[NotDetected EXCEPT !.is_blinking = b, !.is_center = c,
                         !.horizontal_ratio = h, !.vertical_ratio = v] :
        b \in Flags, c \in Flags, h \in OptRatios, v \in OptRatios}

NoFrame == << >>

\* self.gaze.refresh(frame): the estimator now describes this frame
refresh(g, frame, out) == [frame |-> frame, feat |-> out]

\* ------------------------------------------------------------- scorer
Truthy(flag) == flag = "True"

\* round(max(0.0, 1.0 - 2 * sqrt((h-0.5)**2 + (v-0.5)**2)), 2) in hundredths,
\* h and v in tenths: 100 - 20*sqrt(s) = 100 - sqrt(400*s), rounded to the
\* nearest integer (sqrt(400*s) is an integer or irrational: there is no tie).
DistanceScore(h, v) ==
    LET s == (h - 5) * (h - 5) + (v - 5) * (v - 5)
        r == CHOOSE n \in 0..200 : n * n <= 400 * s /\ (n + 1) * (n + 1) > 400 * s
        x == IF r * r = 400 * s \/ 400 * s <= r * r + r THEN 100 - r ELSE 99 - r
    IN IF x < 0 THEN 0 ELSE x

\* faulty variant: the centre rule is tried before the blink rule
calculate_attention_score_center_first(gaze_data) ==
    IF Truthy(gaze_data.is_center) THEN 100
    ELSE IF Truthy(gaze_data.is_blinking) THEN 30
    ELSE IF gaze_data.horizontal_ratio = << >> \/ gaze_data.vertical_ratio = << >>
    THEN 50
    ELSE DistanceScore(gaze_data.horizontal_ratio[1], gaze_data.vertical_ratio[1])

calculate_attention_score(gaze_data) ==
    IF Truthy(gaze_data.is_blinking) THEN 30
    ELSE IF Truthy(gaze_data.is_center) THEN 100
    ELSE IF gaze_data.horizontal_ratio = << >> \/ gaze_data.vertical_ratio = << >>
    THEN 50
    ELSE DistanceScore(gaze_data.horizontal_ratio[1], gaze_data.vertical_ratio[1])

\* ------------------------------------------------------------- process_frame
Timestamp == "loop.time"

\* the dictionary built at lines 100-111, with the score added at line 115
GazeData(feat) ==
    [timestamp |-> Timestamp,
     pupil_left |-> feat.pupil_left,
     pupil_right |-> feat.pupil_right,
     horizontal_ratio |-> feat.horizontal_ratio,
     vertical_ratio |-> feat.vertical_ratio,
     is_left |-> feat.is_left,
     is_right |-> feat.is_right,
     is_center |-> feat.is_center,
     is_blinking |-> feat.is_blinking,
     frame_processed |-> TRUE,
     attention_score |-> calculate_attention_score(feat)]

\* faulty variant: the handler reports the failure but keeps a gaze field
ErrorResultWithScore(e) ==
    [error |-> e, frame_processed |-> FALSE, timestamp |-> Timestamp,
     attention_score |-> 50]

\* faulty variant: the handler reports the failure as a processed frame
ErrorResultProcessed(e) ==
    [error |-> e, frame_processed |-> TRUE, timestamp |-> Timestamp]

\* the dictionary built by the except branch
ErrorResult(e) ==
    [error |-> e, frame_processed |-> FALSE, timestamp |-> Timestamp]

\* how the calls into cv2 and GazeTracking go for one frame: they return
\* (the estimator then reports out), cv2.cvtColor raises, or refresh raises
\* (after it has replaced the estimator's frame)
EstimatorBehaviours ==
    {[raises |-> "no", out |-> o] : o \in EstimatorOutputs}
    \cup {[raises |-> "convert", out |-> NotDetected]}
    \cup {[raises |-> "refresh", out |-> NotDetected]}

\* faulty variant: the accessors are read from the estimator as it was before this
\* frame's refresh
process_frame_stale(g, frame_data, est) ==
    LET decoded == b64decode(B64Text(frame_data))
    IN  IF ~decoded.ok
        THEN [gaze |-> g, result |-> ErrorResult("binascii.Error"),
              caught |-> "binascii.Error", seen |-> NoFrame]
        ELSE IF ~Image_open(decoded.bytes)
        THEN [gaze |-> g, result |-> ErrorResult("UnidentifiedImageError"),
              caught |-> "UnidentifiedImageError", seen |-> NoFrame]
        ELSE IF est.raises = "convert"
        THEN [gaze |-> g, result |-> ErrorResult("cv2.error"),
              caught |-> "cv2.error", seen |-> NoFrame]
        ELSE IF est.raises = "refresh"
        THEN [gaze |-> [g EXCEPT !.frame = decoded.bytes],
              result |-> ErrorResult("EstimatorError"),
              caught |-> "EstimatorError", seen |-> NoFrame]
        ELSE [gaze |-> refresh(g, decoded.bytes, est.out),
              result |-> GazeData(g.feat),
              caught |-> "none", seen |-> g.frame]

\* process_frame(frame_data) on estimator state g.  gaze: the estimator
\* afterwards; result: the returned dictionary; caught: the exception the
\* except branch caught ("none" if none); seen: the frame the estimator
\* described when the accessors were read (NoFrame when they were not read).
process_frame(g, frame_data, est) ==
    LET decoded == b64decode(B64Text(frame_data))
    IN  IF ~decoded.ok
        THEN [gaze |-> g, result |-> ErrorResult("binascii.Error"),
              caught |-> "binascii.Error", seen |-> NoFrame]
        ELSE IF ~Image_open(decoded.bytes)
        THEN [gaze |-> g, result |-> ErrorResult("UnidentifiedImageError"),
              caught |-> "UnidentifiedImageError", seen |-> NoFrame]
        ELSE IF est.raises = "convert"
        THEN [gaze |-> g, result |-> ErrorResult("cv2.error"),
              caught |-> "cv2.error", seen |-> NoFrame]
        ELSE IF est.raises = "refresh"
        THEN [gaze |-> [g EXCEPT !.frame = decoded.bytes],
              result |-> ErrorResult("EstimatorError"),
              caught |-> "EstimatorError", seen |-> NoFrame]
        ELSE LET g2 == refresh(g, decoded.bytes, est.out)
             IN [gaze |-> g2, result |-> GazeData(g2.feat),
                 caught |-> "none", seen |-> g2.frame]

\* the calls of self.gaze.refresh one process_frame makes: line 97 is reached
\* when decoding and the colour conversion raised nothing
Refreshes(frame_data, est) ==
    LET decoded == b64decode(B64Text(frame_data))
    IN IF decoded.ok /\ Image_open(decoded.bytes) /\ est.raises # "convert"
       THEN 1 ELSE 0

\* ------------------------------------------------------------- session loop
\* What a client can put on the wire.  kind "disconnect" is the peer closing
\* the connection; a text message is not JSON ("invalid"), JSON that is not
\* an object ("nonobject": a number, a string, a list, null) or a JSON object
\* with or without a "type" and a "data" member.
TextEvent(json, type, has_data, data) ==
    [kind |-> "text", json |-> json, type |-> type,
     has_data |-> has_data, data |-> data]

Disconnect == [kind |-> "disconnect", json |-> "invalid", type |-> "missing",
               has_data |-> FALSE, data |-> << >>]

ClientEvents ==
    {Disconnect,
     TextEvent("invalid", "missing", FALSE, << >>),
     TextEvent("nonobject", "missing", FALSE, << >>),
     TextEvent("object", "ping", FALSE, << >>),
     TextEvent("object", "other", FALSE, << >>),
     TextEvent("object", "missing", FALSE, << >>),
     TextEvent("object", "frame", FALSE, << >>)}
    \cup {TextEvent("object", "frame", TRUE, p) : p \in SessionPayloads}

Stamp(ev, n) ==
    [id |-> n, kind |-> ev.kind, json |-> ev.json, type |-> ev.type,
     has_data |-> ev.has_data, data |-> ev.data]

\* faulty variant: receive_text hands out the newest event first
NextEventNewest(q) == q[Len(q)]

\* the event receive_text returns: the oldest one the transport holds
NextEvent(q) == Head(q)

\* faulty variant: a message that is not JSON is skipped and the loop goes on
UncaughtNone(ev) ==
    IF ev.kind = "disconnect" THEN "WebSocketDisconnect" ELSE "none"

\* the exception that leaves the while loop for this event, "none" if none:
\* receive_text raises WebSocketDisconnect, json.loads raises JSONDecodeError,
\* message.get raises AttributeError when the JSON value is not an object
Uncaught(ev) ==
    IF ev.kind = "disconnect" THEN "WebSocketDisconnect"
    ELSE IF ev.json = "invalid" THEN "JSONDecodeError"
    ELSE IF ev.json = "nonobject" THEN "AttributeError"
    ELSE "none"

\* faulty variant: message.get("type") != "frame" is answered as a ping
IsPingNotFrame(message) == message.type # "frame"

\* faulty variant: a ping is not recognised
IsPingNever(message) == FALSE

\* message.get("type") == "ping"
IsPing(message) == message.type = "ping"

\* message.get("type") == "frame"
IsFrame(message) == message.type = "frame"

\* faulty variant: the data member only has to be there
HasFrameDataPresent(message) == message.has_data

\* frame_data = message.get("data"); if frame_data: -- a missing member gives
\* None, and None and the empty string are both false
HasFrameData(message) == message.has_data /\ message.data # << >>

\* {"type": "gaze_data", "data": gaze_result}.  of (the event it answers) and
\* seen (see process_frame) are not on the wire: they are there to state the
\* properties.
GazeResponse(ev, r) ==
    [type |-> "gaze_data", of |-> ev, data |-> r.result, seen |-> r.seen]

\* {"type": "pong"}
Pong(ev) == [type |-> "pong", of |-> ev]

Total == LET RECURSIVE Sum(_)
             Sum(S) == IF S = {} THEN 0
                       ELSE LET c == CHOOSE x \in S : TRUE
                            IN nsent[c] + Sum(S \ {c})
         IN Sum(Conns)

NoCall == [raises |-> "convert", out |-> NotDetected]

InitSession ==
    /\ pc = [c \in Conns |-> "accept"]
    /\ inbox = [c \in Conns |-> << >>]
    /\ nsent = [c \in Conns |-> 0]
    /\ gone = [c \in Conns |-> FALSE]
    /\ last = [c \in Conns |-> << >>]
    /\ pending = [c \in Conns |-> << >>]
    /\ outbox = [c \in Conns |-> << >>]
    /\ gaze = [frame |-> NoFrame, feat |-> NotDetected]
    /\ calls = 0

Init ==
    /\ InitSession
    /\ arg = << >>
    /\ ret = << >>

\* await websocket.accept().  The connections are numbered in the order in
\* which the server accepts them.
Accept(c) ==
    /\ pc[c] = "accept"
    /\ \A d \in Conns : d < c => pc[d] # "accept"
    /\ pc' = [pc EXCEPT ![c] = "receive"]
    /\ UNCHANGED <<inbox, nsent, gone, last, pending, outbox, gaze, calls, arg, ret>>

\* the client of c sends a message, or disconnects
ClientSend(c) ==
    /\ pc[c] # "accept"
    /\ ~gone[c]
    /\ Total < MaxMsgs
    /\ \E ev \in ClientEvents :
          /\ inbox' = [inbox EXCEPT ![c] = Append(@, Stamp(ev, nsent[c] + 1))]
          /\ gone' = [gone EXCEPT ![c] = ev.kind = "disconnect"]
    /\ nsent' = [nsent EXCEPT ![c] = @ + 1]
    /\ UNCHANGED <<pc, last, pending, outbox, gaze, calls, arg, ret>>

\* an entry of last: the event, the exception that left the loop, and what
\* handling it did to the estimator (refreshed: calls of refresh; caught: the
\* exception process_frame caught; est: how the estimator behaved)
Entry(ev, exc, refreshed, caught, est) ==
    [ev |-> ev, exc |-> exc, refreshed |-> refreshed, caught |-> caught, est |-> est]

\* receive_text returns (or raises) and the coroutine runs to its next await:
\* json.loads, the dispatch on the type, process_frame, or the except branch
\* that closes the connection
Receive(c) ==
    /\ pc[c] = "receive"
    /\ inbox[c] # << >>
    /\ LET ev == NextEvent(inbox[c])
           exc == Uncaught(ev)
       IN /\ inbox' = [inbox EXCEPT ![c] = SelectSeq(@, LAMBDA e : e.id # ev.id)]
          /\ IF exc # "none"
             THEN /\ pc' = [pc EXCEPT ![c] = "done"]
                  /\ last' = [last EXCEPT ![c] = <<Entry(ev, exc, 0, "none", NoCall)>>]
                  /\ UNCHANGED <<pending, gaze, calls>>
             ELSE IF IsFrame(ev) /\ HasFrameData(ev)
             THEN \E est \in EstimatorBehaviours :
                     LET r == process_frame(gaze, ev.data, est)
                         n == Refreshes(ev.data, est)
                     IN /\ gaze' = r.gaze
                        /\ calls' = calls + n
                        /\ pending' = [pending EXCEPT ![c] = <<GazeResponse(ev, r)>>]
                        /\ pc' = [pc EXCEPT ![c] = "send"]
                        /\ last' = [last EXCEPT ![c] = <<Entry(ev, exc, n, r.caught, est)>>]
             ELSE IF ~IsFrame(ev) /\ IsPing(ev)
             THEN /\ pending' = [pending EXCEPT ![c] = <<Pong(ev)>>]
                  /\ pc' = [pc EXCEPT ![c] = "send"]
                  /\ last' = [last EXCEPT ![c] = <<Entry(ev, exc, 0, "none", NoCall)>>]
                  /\ UNCHANGED <<gaze, calls>>
             ELSE /\ last' = [last EXCEPT ![c] = <<Entry(ev, exc, 0, "none", NoCall)>>]
                  /\ UNCHANGED <<pc, pending, gaze, calls>>
    /\ UNCHANGED <<nsent, gone, outbox, arg, ret>>

\* await websocket.send_text(json.dumps(response)) completes
Send(c) ==
    /\ pc[c] = "send"
    /\ outbox' = [outbox EXCEPT ![c] = Append(@, pending[c][1])]
    /\ pending' = [pending EXCEPT ![c] = << >>]
    /\ pc' = [pc EXCEPT ![c] = "receive"]
    /\ UNCHANGED <<inbox, nsent, gone, last, gaze, calls, arg, ret>>

Next ==
    \/ \E c \in Conns : Accept(c)
    \/ \E c \in Conns : ClientSend(c)
    \/ \E c \in Conns : Receive(c)
    \/ \E c \in Conns : Send(c)

Spec == Init /\ [][Next]_vars

\* ------------------------------------------------------------- pure functions
\* calculate_attention_score applied to one input
InitScore ==
    /\ InitSession
    /\ arg \in ScoreInputs
    /\ ret = << >>

ApplyScore ==
    /\ ret = << >>
    /\ ret' = <<calculate_attention_score(arg)>>
    /\ UNCHANGED <<pc, inbox, nsent, gone, last, pending, outbox, gaze, calls, arg>>

NextScore == ApplyScore

SpecScore == InitScore /\ [][NextScore]_vars

\* the prefix stripping of process_frame applied to one payload
InitDecode ==
    /\ InitSession
    /\ arg \in Payloads
    /\ ret = << >>

ApplyB64Text ==
    /\ ret = << >>
    /\ ret' = <<B64Text(arg)>>
    /\ UNCHANGED <<pc, inbox, nsent, gone, last, pending, outbox, gaze, calls, arg>>

NextDecode == ApplyB64Text

SpecDecode == InitDecode /\ [][NextDecode]_vars

\* ------------------------------------------------------------- properties
AllResponses(c) == outbox[c] \o pending[c]

\* number of events receive_text has returned on c
Handled(c) == nsent[c] - Len(inbox[c])

\* positions in outbox[c] of the responses to event number id
Replies(c, id) == {i \in DOMAIN outbox[c] : outbox[c][i].of.id = id}

IsObject(ev) == ev.kind = "text" /\ ev.json = "object"

\* the frame a payload encodes
FrameOf(frame_data) == b64decode(B64Text(frame_data)).bytes

Decodable(frame_data) ==
    b64decode(B64Text(frame_data)).ok /\ Image_open(FrameOf(frame_data))

Processed(m) == m.type = "gaze_data" /\ m.data.frame_processed

\* the estimator is left alone by the step that handles an event selected by P
Untouched(P(_)) ==
    \A c \in Conns :
        (last'[c] # last[c] /\ P(last'[c][1].ev)) => (gaze' = gaze /\ calls' = calls)

\* C1: every gaze result reports the frame it was computed from: the frame the
\* estimator described when the accessors were read is the frame decoded from
\* the payload of the message the result answers, and the values are the ones
\* the estimator produced for that frame, whatever the other connections did
\* in between.
C1_ResultOfOwnFrame ==
    /\ \A c \in Conns : \A i \in DOMAIN AllResponses(c) :
          LET m == AllResponses(c)[i]
          IN Processed(m) => m.seen = FrameOf(m.of.data)
    /\ \A c \in Conns :
          (pc[c] = "send" /\ Processed(pending[c][1]))
              => /\ last[c][1].ev = pending[c][1].of
                 /\ last[c][1].est.raises = "no"
                 /\ \A f \in DOMAIN last[c][1].est.out :
                       pending[c][1].data[f] = last[c][1].est.out[f]

\* two connections had a frame processed, and the estimator was refreshed for
\* the other connection before this one's result was sent
C1_Witness ==
    \E c \in Conns : \E d \in Conns \ {c} :
        /\ pc[c] = "send" /\ Processed(pending[c][1])
        /\ pc[d] = "send" /\ Processed(pending[d][1])
        /\ pending[c][1].seen # pending[d][1].seen
        /\ gaze.frame = pending[d][1].seen

ErrorReply(m, e) ==
    /\ m.type = "gaze_data"
    /\ m.of = e.ev
    /\ DOMAIN m.data = {"error", "frame_processed", "timestamp"}
    /\ m.data.frame_processed = FALSE
    /\ m.data.error = e.caught

\* C2: a frame whose processing fails (bad base64, not an image, a raising
\* cv2/estimator call) does not leave the loop: exactly one gaze_data with
\* frame_processed false, an error and a timestamp answers it, and the session
\* stays Open.
C2_FailureIsAnswered ==
    \A c \in Conns :
        last[c] # << >> =>
            LET e == last[c][1]
                failed == /\ IsObject(e.ev) /\ IsFrame(e.ev) /\ HasFrameData(e.ev)
                          /\ (~Decodable(e.ev.data) \/ e.est.raises # "no")
            IN /\ failed <=> e.caught # "none"
               /\ failed =>
                    /\ e.exc = "none"
                    /\ pc[c] \in {"send", "receive"}
                    /\ pc[c] = "send" =>
                          /\ ErrorReply(pending[c][1], e)
                          /\ Replies(c, e.ev.id) = {}
                    /\ pc[c] = "receive" =>
                          /\ Replies(c, e.ev.id) = {Len(outbox[c])}
                          /\ ErrorReply(outbox[c][Len(outbox[c])], e)

\* a failed frame was answered with an error result and the next message, a
\* ping, was answered with a pong
C2_Witness ==
    \E c \in Conns :
        /\ Len(outbox[c]) = 2
        /\ outbox[c][1].type = "gaze_data"
        /\ ~outbox[c][1].data.frame_processed
        /\ outbox[c][2].type = "pong"
        /\ pc[c] = "receive"

GazeFields ==
    {"pupil_left", "pupil_right", "horizontal_ratio", "vertical_ratio",
     "is_left", "is_right", "is_center", "is_blinking", "attention_score"}

\* C3: a result with frame_processed false has an error and no gaze field; a
\* result with frame_processed true has no error and has an attention_score.
C3_ResultShape ==
    \A c \in Conns : \A i \in DOMAIN AllResponses(c) :
        LET m == AllResponses(c)[i]
        IN m.type = "gaze_data" =>
              IF m.data.frame_processed
              THEN "error" \notin DOMAIN m.data /\ "attention_score" \in DOMAIN m.data
              ELSE "error" \in DOMAIN m.data /\ DOMAIN m.data \cap GazeFields = {}

\* both shapes were sent
C3_Witness ==
    \E c \in Conns : \E d \in Conns :
        /\ \E i \in DOMAIN outbox[c] : Processed(outbox[c][i])
        /\ \E j \in DOMAIN outbox[d] :
              outbox[d][j].type = "gaze_data" /\ ~outbox[d][j].data.frame_processed

\* the event handled last on c was answered by exactly one response of type t,
\* which is pending or was the last one sent
AnsweredOnce(c, t) ==
    LET e == last[c][1]
    IN /\ e.exc = "none"
       /\ pc[c] \in {"send", "receive"}
       /\ pc[c] = "send" =>
             /\ pending[c][1].type = t /\ pending[c][1].of = e.ev
             /\ Replies(c, e.ev.id) = {}
       /\ pc[c] = "receive" =>
             /\ Replies(c, e.ev.id) = {Len(outbox[c])}
             /\ outbox[c][Len(outbox[c])].type = t

\* the event handled last on c was dropped: nothing is or was sent for it and
\* the session is back at receive_text
Dropped(c) ==
    LET e == last[c][1]
    IN /\ e.exc = "none"
       /\ pc[c] = "receive"
       /\ pending[c] = << >>
       /\ Replies(c, e.ev.id) = {}
       /\ e.refreshed = 0

FrameWithData(ev) == IsObject(ev) /\ IsFrame(ev) /\ ev.has_data

FrameWithTruthyData(ev) == FrameWithData(ev) /\ ev.data # << >>

FrameWithoutData(ev) == IsObject(ev) /\ IsFrame(ev) /\ ~ev.has_data

FrameWithFalsyData(ev) == IsObject(ev) /\ IsFrame(ev) /\ ~FrameWithTruthyData(ev)

\* C4 as stated: every frame message whose data member is present, whatever
\* its value, has been answered by one gaze_data when the session is back at
\* receive_text.
C4_AsClaimed ==
    \A c \in Conns :
        (last[c] # << >> /\ FrameWithData(last[c][1].ev) /\ pc[c] = "receive")
            => Cardinality(Replies(c, last[c][1].ev.id)) = 1

\* C4 amended: a frame message whose data is a non-empty string is answered by
\* exactly one gaze_data before the next receive, with at most one refresh of
\* the estimator (one when the payload decodes and the conversion succeeds);
\* a frame message whose data is absent or empty is dropped, the estimator is
\* not invoked and the session stays Open.
C4_TruthyDataAnswered ==
    /\ [](\A c \in Conns :
            last[c] # << >> =>
                LET e == last[c][1]
                IN /\ FrameWithTruthyData(e.ev) =>
                        /\ AnsweredOnce(c, "gaze_data")
                        /\ e.refreshed = IF Decodable(e.ev.data) /\ e.est.raises # "convert"
                                         THEN 1 ELSE 0
                   /\ FrameWithFalsyData(e.ev) => Dropped(c))
    /\ [][Untouched(FrameWithFalsyData)]_vars
    /\ [][\A c \in Conns :
            (last'[c] # last[c] /\ FrameWithTruthyData(last'[c][1].ev))
                => calls' = calls + last'[c][1].refreshed]_vars

\* a frame with an empty data string was dropped, and a frame with a payload
\* was answered
C4_Witness ==
    \E c \in Conns : \E d \in Conns :
        /\ last[c] # << >> /\ FrameWithData(last[c][1].ev)
        /\ ~FrameWithTruthyData(last[c][1].ev) /\ pc[c] = "receive"
        /\ last[d] # << >> /\ FrameWithTruthyData(last[d][1].ev)
        /\ pc[d] = "receive" /\ Len(outbox[d]) = 1

PingEvent(ev) == IsObject(ev) /\ ev.type = "ping"

\* C5: a ping is answered by exactly one pong, the next message sent on the
\* connection; the estimator is not invoked while it is handled, the session
\* stays Open, and a pong is only ever sent for a ping.
C5_PingPong ==
    /\ [](\A c \in Conns :
            /\ (last[c] # << >> /\ PingEvent(last[c][1].ev))
                   => AnsweredOnce(c, "pong") /\ last[c][1].refreshed = 0
            /\ \A i \in DOMAIN AllResponses(c) :
                   AllResponses(c)[i].type = "pong" => PingEvent(AllResponses(c)[i].of))
    /\ [][Untouched(PingEvent)]_vars

\* a ping was answered after the estimator had processed a frame
C5_Witness ==
    \E c \in Conns :
        /\ last[c] # << >> /\ PingEvent(last[c][1].ev)
        /\ pc[c] = "receive"
        /\ outbox[c][Len(outbox[c])].type = "pong"
        /\ calls = 1

ParsesAsJson(ev) == ev.kind = "text" /\ ev.json # "invalid"

UnknownType(ev) == ev.json = "nonobject" \/ ev.type \notin {"frame", "ping"}

UnknownTypeObject(ev) == IsObject(ev) /\ ev.type \notin {"frame", "ping"}

Closing == {"WebSocketDisconnect", "JSONDecodeError", "AttributeError"}

\* C7: a message that is not JSON closes the session without a response; a
\* session is Closed only by a peer disconnect or an exception that left the
\* loop; a Closed session stays Closed and handles and answers nothing more.
C7_InvalidJsonCloses ==
    /\ [](\A c \in Conns :
            /\ (last[c] # << >> /\ last[c][1].ev.kind = "text"
                    /\ last[c][1].ev.json = "invalid")
                   => /\ last[c][1].exc = "JSONDecodeError"
                      /\ pc[c] = "done"
                      /\ pending[c] = << >>
                      /\ Replies(c, last[c][1].ev.id) = {}
            /\ pc[c] = "done" <=> (last[c] # << >> /\ last[c][1].exc \in Closing))
    /\ [][\A c \in Conns :
            pc[c] = "done" =>
                /\ pc'[c] = "done"
                /\ last'[c] = last[c]
                /\ outbox'[c] = outbox[c]
                /\ pending'[c] = pending[c]]_vars

\* a session closed by a message that is not JSON, with a later message of the
\* client left unhandled
C7_Witness ==
    \E c \in Conns :
        /\ pc[c] = "done"
        /\ last[c][1].exc = "JSONDecodeError"
        /\ inbox[c] # << >>
        /\ outbox[c] = << >>

\* C10: on a connection the events are handled in arrival order, one at a
\* time: the event handled last is the newest of those taken from the
\* transport, a pending response answers it, and the responses sent are in the
\* order of the events they answer.
C10_InOrder ==
    \A c \in Conns :
        /\ last[c] # << >> => last[c][1].ev.id = Handled(c)
        /\ last[c] = << >> => Handled(c) = 0
        /\ pc[c] = "send" <=> pending[c] # << >>
        /\ pc[c] = "send" => pending[c][1].of.id = Handled(c)
        /\ \A i \in DOMAIN outbox[c] :
              /\ outbox[c][i].of.id <= Handled(c)
              /\ pc[c] = "send" => outbox[c][i].of.id < Handled(c)
              /\ \A j \in DOMAIN outbox[c] :
                    i < j => outbox[c][i].of.id < outbox[c][j].of.id

\* two messages of one connection were answered in order while another
\* connection was open
C10_Witness ==
    \E c \in Conns : \E d \in Conns \ {c} :
        /\ Len(outbox[c]) = 2
        /\ outbox[c][1].of.id = 1
        /\ outbox[c][2].of.id = 2
        /\ pc[d] = "receive"

\* ---- calculate_attention_score (SpecScore)
\* n is 100 * (1 - 2 * d) rounded to the nearest integer and not below 0,
\* where d is the distance of (h, v)/10 from (0.5, 0.5); dd is 100 * d * d
RoundedScore(n, dd) ==
    IF n = 0 THEN 16 * dd * 100 > 199 * 199
    ELSE /\ n \in 1..100
         /\ 16 * dd * 100 < (201 - 2 * n) * (201 - 2 * n)
         /\ (199 - 2 * n < 0 \/ 16 * dd * 100 > (199 - 2 * n) * (199 - 2 * n))

\* C8: the rules apply in priority order: blinking gives 0.3 whatever the
\* rest; otherwise centre gives 1.0; otherwise a missing ratio gives 0.5;
\* only otherwise the distance formula decides.
C8_PriorityOrder ==
    ret # << >> =>
        LET h == arg.horizontal_ratio
            v == arg.vertical_ratio
        IN IF arg.is_blinking = "True" THEN ret[1] = 30
           ELSE IF arg.is_center = "True" THEN ret[1] = 100
           ELSE IF h = << >> \/ v = << >> THEN ret[1] = 50
           ELSE RoundedScore(ret[1],
                             (h[1] - 5) * (h[1] - 5) + (v[1] - 5) * (v[1] - 5))

\* the score of a blinking, centred gaze with both ratios at the centre
C8_Witness ==
    /\ ret = <<30>>
    /\ arg \in ScoreInputs
    /\ arg.is_blinking = "True" /\ arg.is_center = "True"
    /\ arg.horizontal_ratio = <<5>> /\ arg.vertical_ratio = <<5>>

\* ---- prefix stripping (SpecDecode)
\* the payload from the character after its first comma to its end
AfterFirstComma(s) ==
    IF HasComma(s)
    THEN LET k == CHOOSE i \in 1..Len(s) : s[i] = "," /\ \A j \in 1..(i - 1) : s[j] # ","
         IN SubSeq(s, k + 1, Len(s))
    ELSE s

\* C9 as stated: the text handed to the base64 decoder is the payload without
\* its prefix up to and including the first comma.
C9_AsClaimed ==
    ret # << >> => ret[1] = AfterFirstComma(arg)

====
